---------------------------- MODULE Spec2Model ----------------------------
(***************************************************************************)
(* CrowdShield: the advisory generator with its process-wide circuit       *)
(* breaker (src/src/llm_insights.py) and the graph loading / hazard        *)
(* weighting / route computation of a decision cycle (src/src/routing.py,  *)
(* src/app.py), dispatch (src/src/authority.py) and the session state of   *)
(* a decision cycle: risk history and automatic alert (src/app.py).        *)
(***************************************************************************)
EXTENDS Integers, Sequences, FiniteSets, TLC

VARIABLES
    \* ---- llm_insights.py: module state of one process + the cache file
    OPENAI_DISABLED,   \* the circuit breaker flag (module global)
    LOCAL_CACHE,       \* the in-memory dict severity -> advisory text
    cacheFile,         \* data/cached_advisories.json on disk
    clientLib,         \* which OpenAI client the import block found
    writeFailed,       \* history: a dump of LOCAL_CACHE failed in this process
                       \* and none has succeeded since
    call,              \* the last generate_advisory call: inputs and outcome
    \* ---- app.py / routing.py: the route block of the last decision cycle
    world,             \* the data the cycles read: street network, cached
                       \* graph file, hazard zones
    cycle,             \* inputs, intermediate values and outputs of the cycle
    \* ---- app.py: the nearest-shelter selection of the last cycle
    locate,
    \* ---- authority.py: the last dispatch call, arguments and result
    disp,
    \* ---- routing.py: the edge data compute_fastest_path last annotated
    edge,
    \* ---- llm_insights.py run by two sessions of one server process: where
    \* each session's generate_advisory call stands
    threads,
    \* ---- app.py: st.session_state of one browser session (risk history,
    \* automatic-alert flag) and the risk scoring, fusion and automatic alert
    \* of its last decision cycle
    session

auxVars == <<locate, disp, edge, threads, session>>
advisoryVars == <<OPENAI_DISABLED, LOCAL_CACHE, cacheFile, clientLib, writeFailed, call>>
vars == <<OPENAI_DISABLED, LOCAL_CACHE, cacheFile, clientLib, writeFailed, call,
          world, cycle, locate, disp, edge, threads, session>>

(***************************************************************************)
(* Bounds of the model.                                                    *)
(***************************************************************************)
NumSev == 2           \* how many of the severity tiers the calls range over

(***************************************************************************)
(* Texts are sequences of tokens.  A generated text is a sequence of       *)
(* characters, so that str.strip() is computed and not assumed.            *)
(***************************************************************************)
SeverityTiers == <<"High", "Low", "Medium", "Critical">>
Severities == {SeverityTiers[i] : i \in 1..(IF NumSev < 4 THEN NumSev ELSE 4)}

DriverLists == {<<>>, <<"Heavy rainfall">>}
Roles == {"Authority", "Local Authority"}

\* message contents the upstream generator may answer with (before strip)
RawContents == {<<" ">>, <<" ", "a", " ">>, <<"b">>}

\* str.strip(): drop leading and trailing whitespace
RECURSIVE LStrip(_)
LStrip(s) == IF s # <<>> /\ Head(s) = " " THEN LStrip(Tail(s)) ELSE s
RECURSIVE RStrip(_)
RStrip(s) ==
    IF s # <<>> /\ s[Len(s)] = " " THEN RStrip(SubSeq(s, 1, Len(s) - 1)) ELSE s
Strip(s) == RStrip(LStrip(s))

\* f"{severity} advisory: follow local instructions."
Template(severity) == <<severity, " advisory: follow local instructions.">>

\* the f-string prompt of line 34
Prompt(severity, top_drivers, role) ==
    <<"severity=", severity, "drivers=", top_drivers, "role=", role>>

(***************************************************************************)
(* Exceptions.  str(e) is a sequence of words; `"quota" in msg` is true    *)
(* when some word contains the substring "quota".                          *)
(***************************************************************************)
QuotaWords == {"quota", "insufficient_quota"}

UpstreamErrors == {
    [cls |-> "quota",   msg |-> <<"You", "exceeded", "your", "current", "quota", "insufficient_quota">>],
    [cls |-> "auth",    msg |-> <<"Incorrect", "API", "key", "provided", "invalid_api_key">>],
    [cls |-> "network", msg |-> <<"Connection", "error.">>],
    [cls |-> "timeout", msg |-> <<"Request", "timed", "out.">>] }

\* resp.choices[0].message.content is None: .strip() raises AttributeError
NoneStripMsg == <<"'NoneType'", "object", "has", "no", "attribute", "'strip'">>

\* what the upstream call can do
UpstreamOutcomes ==
    {[kind |-> "ok", content |-> c] : c \in RawContents}
    \cup {[kind |-> "none"]}
    \cup {[kind |-> "error", err |-> e] : e \in UpstreamErrors}

\* what open(CACHE_PATH, "w") + json.dump can do: succeed, fail in open()
\* (the file is untouched), or fail after open() truncated the file
WriteOutcomes == {
    [kind |-> "ok"],
    [kind |-> "open_failed",  msg |-> <<"Permission", "denied">>],
    [kind |-> "write_failed", msg |-> <<"No", "space", "left", "on", "device">>],
    [kind |-> "write_failed", msg |-> <<"Disk", "quota", "exceeded">>] }

NoWrite == [kind |-> "none"]
NoUpstream == [kind |-> "skipped"]

\* every failure counted as a hard one
MutIsQuotaMessage(msg) == msg # <<>>

\* how a call's upstream step ended: not made, a text, an empty text, a
\* response without content, or the class of the error raised
UpstreamClass(up) ==
    CASE up.kind = "skipped" -> "skipped"
      [] up.kind = "none" -> "nocontent"
      [] up.kind = "error" -> up.err.cls
      [] OTHER -> "ok"

\* line 75: "insufficient_quota" in msg or "quota" in msg
IsQuotaMessage(msg) == \E i \in DOMAIN msg : msg[i] \in QuotaWords

(***************************************************************************)
(* dict operations on LOCAL_CACHE (a function whose domain is the keys).   *)
(***************************************************************************)
EmptyDict == [k \in {} |-> <<>>]

DictGet(d, k, default) == IF k \in DOMAIN d THEN d[k] ELSE default

\* the dict replaced by the new entry alone
MutDictSet(d, k, v) == [x \in {k} |-> v]

DictSet(d, k, v) == [x \in (DOMAIN d) \cup {k} |-> IF x = k THEN v ELSE d[x]]

\* the cache never consulted
MutFallback(cache, severity) == Template(severity)

\* lines 39 and 79: LOCAL_CACHE.get(severity, f"{severity} advisory: ...")
Fallback(cache, severity) == DictGet(cache, severity, Template(severity))

(***************************************************************************)
(* The cache file: absent, a valid JSON object, or not parseable.          *)
(***************************************************************************)
FileAbsent == [state |-> "absent", data |-> EmptyDict]
FileCorrupt == [state |-> "corrupt", data |-> EmptyDict]
FileValid(d) == [state |-> "valid", data |-> d]

\* the dict is cached in memory but never dumped
MutFileAfterWrite(file, cache, wr) == file

\* lines 68-69: open(CACHE_PATH, "w") truncates, json.dump writes the dict
FileAfterWrite(file, cache, wr) ==
    CASE wr.kind = "ok" -> FileValid(cache)
      [] wr.kind = "open_failed" -> file
      [] OTHER -> FileCorrupt

\* the early return of lines 38-39 left out
MutBreakerSkips(disabled) == FALSE

\* line 38: if OPENAI_DISABLED
BreakerSkips(disabled) == disabled

\* no exception was raised
NoException == <<>>

\* the flag recomputed by every call from that call's exception
MutTripsBreaker(disabled, msg) == IsQuotaMessage(msg)

\* lines 74-76: OPENAI_DISABLED after the call; it is only ever assigned True,
\* and only in the except clause
TripsBreaker(disabled, msg) == disabled \/ IsQuotaMessage(msg)

\* line 41: if key and (OpenAI or openai)
UpstreamConfigured(key, lib) == key /\ lib # "none"

(***************************************************************************)
(* generate_advisory, lines 27-79, as a function of the module state, the  *)
(* arguments and what the environment does during the call.                *)
(***************************************************************************)
GenerateAdvisory(disabled, cache, file, lib, severity, key, up, wr) ==
    LET \* lines 38 and 41: is the upstream generator called at all
        attempt == ~BreakerSkips(disabled) /\ UpstreamConfigured(key, lib)
        \* lines 53 / 63: the stripped content; empty when there is none
        text == IF attempt /\ up.kind = "ok" THEN Strip(up.content) ELSE <<>>
        \* line 65: if text
        stored == text # <<>>
        \* line 67 runs before the file is opened
        cache2 == IF stored THEN DictSet(cache, severity, text) ELSE cache
        file2 == IF stored THEN FileAfterWrite(file, cache2, wr) ELSE file
        \* str(e) of the exception the try block raised, if any (line 74)
        exc == IF ~attempt THEN NoException
               ELSE IF up.kind = "error" THEN up.err.msg
               ELSE IF up.kind = "none" THEN NoneStripMsg
               ELSE IF stored /\ wr.kind # "ok" THEN wr.msg
               ELSE NoException
    IN [disabled |-> TripsBreaker(disabled, exc),
        cache |-> cache2,
        file |-> file2,
        invoked |-> attempt,
        up |-> IF attempt THEN up ELSE NoUpstream,
        wr |-> IF stored THEN wr ELSE NoWrite,
        text |-> text,
        \* line 70 returns the text; lines 39 and 79 are the fallback
        result |-> IF stored /\ wr.kind = "ok" THEN text
                   ELSE Fallback(cache2, severity)]

(***************************************************************************)
(* Module import, lines 8-25.                                              *)
(***************************************************************************)
ClientLibs == {"new", "legacy", "none"}

\* texts the program itself can have stored
StoredTexts == {Strip(c) : c \in RawContents} \ {<<>>}

InitialFiles ==
    {FileAbsent} \cup
    {FileValid(d) : d \in UNION {[S -> StoredTexts] : S \in SUBSET Severities}}

\* the file never read at import
MutLoadCache(file) == EmptyDict

\* lines 21-25: LOCAL_CACHE = {} ; json.load(f) if the file exists
LoadCache(file) == IF file.state = "valid" THEN file.data ELSE EmptyDict

\* no call has been made yet in the running process
NoCall == [severity |-> "", key |-> FALSE, before |-> FALSE, prior |-> <<>>,
           invoked |-> FALSE, up |-> "none", wr |-> NoWrite,
           text |-> <<>>, result |-> <<>>]

InitAdvisory ==
    /\ OPENAI_DISABLED = FALSE
    /\ cacheFile \in InitialFiles
    /\ LOCAL_CACHE = LoadCache(cacheFile)
    /\ clientLib \in ClientLibs
    /\ writeFailed = FALSE
    /\ call = NoCall

\* The environment of one call: the upstream generator answers only if it is
\* called, and the file system only if the file is written.
UpstreamChoices(disabled, key, lib) ==
    IF ~BreakerSkips(disabled) /\ UpstreamConfigured(key, lib)
    THEN UpstreamOutcomes ELSE {NoUpstream}

WriteChoices(up) ==
    IF up.kind = "ok" /\ Strip(up.content) # <<>> THEN WriteOutcomes ELSE {NoWrite}

PromptChoices(severity, up) ==
    IF up = NoUpstream THEN {<<>>}
    ELSE {Prompt(severity, d, r) : d \in DriverLists, r \in Roles}

\* one call of generate_advisory(severity, top_drivers, role)
GenerateAdvisoryCall ==
    \E severity \in Severities, key \in BOOLEAN :
    \E up \in UpstreamChoices(OPENAI_DISABLED, key, clientLib) :
    \E wr \in WriteChoices(up), prompt \in PromptChoices(severity, up) :
        \* the prompt only travels to the upstream generator
        LET r == GenerateAdvisory(OPENAI_DISABLED, LOCAL_CACHE, cacheFile,
                                  clientLib, severity, key, up, wr)
        IN /\ OPENAI_DISABLED' = r.disabled
           /\ LOCAL_CACHE' = r.cache
           /\ cacheFile' = r.file
           /\ writeFailed' = IF r.wr = NoWrite THEN writeFailed
                             ELSE r.wr.kind # "ok"
           /\ call' = [severity |-> severity, key |-> key,
                       before |-> OPENAI_DISABLED,
                       prior |-> DictGet(LOCAL_CACHE, severity, <<>>),
                       invoked |-> r.invoked, up |-> UpstreamClass(r.up),
                       wr |-> r.wr, text |-> r.text, result |-> r.result]
           /\ UNCHANGED <<clientLib, world, cycle, auxVars>>

\* the process is restarted: the module is imported again
Restart ==
    /\ cacheFile.state # "corrupt"    \* json.load raises: the import fails
    /\ OPENAI_DISABLED' = FALSE
    /\ LOCAL_CACHE' = LoadCache(cacheFile)
    /\ writeFailed' = FALSE
    /\ call' = NoCall
    /\ UNCHANGED <<cacheFile, clientLib, world, cycle, auxVars>>

NextAdvisory == GenerateAdvisoryCall \/ Restart


(***************************************************************************)
(* Routing: src/src/routing.py and the route block of src/app.py.          *)
(*                                                                         *)
(* A graph is a record [nodes, pos, edges]: pos gives each node its        *)
(* (lat, lon) and edges maps a directed pair <<u, v>> to the edge's        *)
(* attribute dict.  A walk network has every street in both directions.    *)
(***************************************************************************)
MaxLength == 2        \* the length of street 1-2 ranges over 1..MaxLength

Nodes == {1, 2, 3}

\* (lat, lon) of the nodes, and the places a person or a shelter can be at
NodePos == [n \in Nodes |-> CASE n = 1 -> <<0, 0>>
                              [] n = 2 -> <<0, 4>>
                              [] OTHER -> <<3, 2>>]
Points == {<<0, 1>>, <<0, 3>>}
\* gps_mock gives one fixed location
Origin == <<0, 1>>

Streets == {{1, 2}, {1, 3}, {2, 3}}

\* the graph with the given street lengths (0: the street does not exist)
MakeGraph(len) ==
    [nodes |-> Nodes,
     pos |-> NodePos,
     edges |-> [e \in {<<u, v>> \in Nodes \X Nodes :
                          u # v /\ {u, v} \in Streets /\ len[{u, v}] > 0}
                  |-> [length |-> len[{e[1], e[2]}]]]]

\* the direct street 1-2 has any length; the streets of the detour over
\* node 3 have length 1 when they exist
WorldGraphs ==
    {MakeGraph(len) : len \in {l \in [Streets -> 0..MaxLength] :
                                  l[{1, 3}] <= 1 /\ l[{2, 3}] <= 1}}

\* None
NoGraph == [nodes |-> {}, pos |-> <<>>, edges |-> <<>>]

\* hazard zones: the streets the polygon intersects, and the risk level.
\* The hazard collection of a region is any set of these zones.
RiskOrder == <<"low", "medium", "high", "critical">>
RiskLevels == {RiskOrder[i] : i \in DOMAIN RiskOrder}
Zones == {[covers |-> {{1, 2}}, risk |-> "low"],
          [covers |-> {{1, 2}, {2, 3}}, risk |-> "critical"],
          [covers |-> {}, risk |-> "medium"]}
HazardSets == SUBSET Zones

\* The body of load_graph's try block, lines 10-19.  fetch: what
\* ox.graph_from_point does ("ok", "failed"); file: the state of
\* data/local_graph.graphml ("absent", "ok", "unreadable").  The result
\* names the graph returned, where it came from, how often each source was
\* tried and whether the body raised.
LoadGraphBody(online, fetch, file, graph) ==
    IF online
    THEN [graph |-> IF fetch = "ok" THEN graph ELSE NoGraph,
          from |-> IF fetch = "ok" THEN "online" ELSE "none",
          onlineTries |-> 1, cacheTries |-> 0,
          raised |-> fetch # "ok"]
    ELSE [graph |-> IF file = "ok" THEN graph ELSE NoGraph,
          from |-> IF file = "ok" THEN "cache" ELSE "none",
          onlineTries |-> 0,
          cacheTries |-> IF file = "absent" THEN 0 ELSE 1,
          raised |-> file = "unreadable"]

\* no try/except around the body
MutLoadGraph(online, fetch, file, graph) ==
    LoadGraphBody(online, fetch, file, graph)

\* load_graph, lines 5-22: except Exception returns None
LoadGraph(online, fetch, file, graph) ==
    [LoadGraphBody(online, fetch, file, graph) EXCEPT !.raised = FALSE]

\* the early returns of lines 28-31 left out: the graph is always copied
MutBlockEdgesByHazards(G, hazards, copy) ==
    IF copy = "ok" THEN [graph |-> G, same |-> FALSE]
    ELSE [graph |-> G, same |-> TRUE]

\* block_edges_by_hazards, lines 24-39: the graph returned and whether it is
\* the argument itself (same object) or a copy of it
BlockEdgesByHazards(G, hazards, copy) ==
    IF G = NoGraph THEN [graph |-> NoGraph, same |-> TRUE]
    ELSE IF hazards = {} THEN [graph |-> G, same |-> TRUE]
    ELSE IF copy = "ok" THEN [graph |-> G, same |-> FALSE]
    ELSE [graph |-> G, same |-> TRUE]

\* ox.nearest_nodes(G, lon, lat): the nodes nearest to the point
Dist2(p, q) == (p[1] - q[1]) * (p[1] - q[1]) + (p[2] - q[2]) * (p[2] - q[2])
NearestNodes(G, p) ==
    {n \in G.nodes : \A m \in G.nodes : Dist2(G.pos[n], p) <= Dist2(G.pos[m], p)}

\* nx.shortest_path(G, s, t, weight=attr): a missing attribute counts 1
EdgeWeight(G, u, v, attr) == DictGet(G.edges[<<u, v>>], attr, 1)

NodeSeqs(N) ==
    UNION {{q \in [1..k -> N] : \A i, j \in 1..k : i # j => q[i] # q[j]} :
              k \in 1..Cardinality(N)}

\* every sequence of distinct nodes
AllNodeSeqs == NodeSeqs(Nodes)

PathsBetween(G, s, t) ==
    {q \in AllNodeSeqs :
        /\ q[1] = s /\ q[Len(q)] = t
        /\ \A i \in 1..Len(q) : q[i] \in G.nodes
        /\ \A i \in 1..(Len(q) - 1) : <<q[i], q[i + 1]>> \in DOMAIN G.edges}

RECURSIVE PathWeight(_, _, _)
PathWeight(G, q, attr) ==
    IF Len(q) < 2 THEN 0
    ELSE EdgeWeight(G, q[1], q[2], attr) + PathWeight(G, Tail(q), attr)

\* the paths nx.shortest_path may return; none: NetworkXNoPath is raised
NxShortestPaths(G, s, t, attr) ==
    LET P == PathsBetween(G, s, t)
        least == CHOOSE w \in {PathWeight(G, q, attr) : q \in P} :
                    \A q \in P : w <= PathWeight(G, q, attr)
    IN IF P = {} THEN {} ELSE {q \in P : PathWeight(G, q, attr) = least}

\* None, as a route
NoRoute == <<>>

\* lines 54-65: the node path converted to (lat, lon) pairs
ToCoords(G, q) == [i \in 1..Len(q) |-> G.pos[q[i]]]

\* lines 49-68 (and 85-104, 119-138): snap, search, convert; any exception
\* gives None.  The set of results the call may have.
PathSearch(G, origin, target, attr, hasNearest) ==
    IF ~hasNearest THEN {[path |-> <<>>, route |-> NoRoute]}
    ELSE UNION {
        LET found == NxShortestPaths(G, o, t, attr) IN
        IF found = {}
        THEN {[path |-> <<>>, route |-> NoRoute]}
        ELSE {[path |-> q, route |-> ToCoords(G, q)] : q \in found}
        : o \in NearestNodes(G, origin), t \in NearestNodes(G, target)}

\* lines 78-83: the travel time written into every edge, in 1/100 s
\* (length / (speed*1000/3600) = 3.6 * length / speed)
TimeOf(data) ==
    LET speed == DictGet(data, "speed_kph", 30) IN
    IF "length" \in DOMAIN data /\ speed > 0
    THEN (data["length"] * 360) \div speed
    ELSE (DictGet(data, "length", 100) * 100) \div 10

WithTimes(G) ==
    [G EXCEPT !.edges = [e \in DOMAIN G.edges |->
                            DictSet(G.edges[e], "time", TimeOf(G.edges[e]))]]

\* lines 114-117: length * (1 + hazard_penalty) written into every edge
SafeWeightOf(data) ==
    DictGet(data, "length", 100) * (1 + DictGet(data, "hazard_penalty", 0))

WithSafeWeights(G) ==
    [G EXCEPT !.edges = [e \in DOMAIN G.edges |->
                            DictSet(G.edges[e], "safe_weight",
                                    SafeWeightOf(G.edges[e]))]]

\* compute_shortest_path / compute_fastest_path / compute_safest_path: the
\* graph object after the call and the weight attribute searched
GraphAfter(G, mode) ==
    CASE mode = "Fastest" -> WithTimes(G)
      [] mode = "Safest" -> WithSafeWeights(G)
      [] OTHER -> G

WeightAttr(mode) ==
    CASE mode = "Fastest" -> "time"
      [] mode = "Safest" -> "safe_weight"
      [] OTHER -> "length"

\* grid_route_fallback, lines 140-142
GridRouteFallback(origin, target) == <<origin, target>>

RouteModes == {"Shortest", "Fastest", "Safest"}
FallbackTags == {"Grid fallback", "Grid fallback (offline)", "Shortest (fallback)"}

\* the length of the route not looked at
MutRouteValid(route) == route # NoRoute

\* app.py line 455: if route and len(route) > 1
RouteValid(route) == route # NoRoute /\ Len(route) > 1

\* the tag left at the requested strategy whatever the search gave
MutRouteBlock(find_route, blocked, mode, found, origin, target) ==
    IF ~find_route THEN [route |-> NoRoute, used |-> mode]
    ELSE IF RouteValid(found) THEN [route |-> found, used |-> mode]
    ELSE [route |-> GridRouteFallback(origin, target), used |-> mode]

\* app.py lines 438-471: the route and the tag shown for it
RouteBlock(find_route, blocked, mode, found, origin, target) ==
    IF ~find_route THEN [route |-> NoRoute, used |-> mode]
    ELSE IF blocked = NoGraph
    THEN [route |-> GridRouteFallback(origin, target),
          used |-> "Grid fallback (offline)"]
    ELSE IF RouteValid(found) THEN [route |-> found, used |-> mode]
    ELSE [route |-> GridRouteFallback(origin, target), used |-> "Grid fallback"]

(***************************************************************************)
(* Nearest shelter: src/app.py lines 413-436.                              *)
(*                                                                         *)
(* Coordinates are whole degrees.  Distances are in millionths of a        *)
(* kilometre (mm), so that int(dist_km / 4.5 * 60) is dist \div 75000.     *)
(***************************************************************************)
MaxShelters == 3      \* rows of the shelters frame

Abs(x) == IF x < 0 THEN 0 - x ELSE x

\* haversine_km evaluated by the code's formula (R = 6371.0) for latitudes
\* 0..3 and longitude differences 0..4: HaversineTable[lat1+1][lat2+1][d+1].
\* The formula depends on the longitudes only through |lon2 - lon1|.
HaversineTable ==
    <<<<<<0, 111194926, 222389853, 333584779, 444779706>>,
        <<111194926, 157249381, 248629314, 351613161, 458446512>>,
        <<222389853, 248629314, 314474805, 400862624, 497198000>>,
        <<333584779, 351613161, 400862624, 471652288, 555811941>>>>,
      <<<<111194926, 157249381, 248629314, 351613161, 458446512>>,
        <<0, 111177990, 222355978, 333533961, 444711936>>,
        <<111194926, 157225432, 248568719, 351516740, 458315018>>,
        <<222389853, 248606597, 314402951, 400735772, 497016143>>>>,
      <<<<222389853, 248629314, 314474805, 400862624, 497198000>>,
        <<111194926, 157225432, 248568719, 351516740, 458315018>>,
        <<0, 111127187, 222254365, 333381522, 444508648>>,
        <<111194926, 157177551, 248447557, 351323936, 458052077>>>>,
      <<<<333584779, 351613161, 400862624, 471652288, 555811941>>,
        <<222389853, 248606597, 314402951, 400735772, 497016143>>,
        <<111194926, 157177551, 248447557, 351323936, 458052077>>,
        <<0, 111042534, 222085044, 333127509, 444169904>>>>>>

haversine_km(p1, p2) ==
    HaversineTable[p1[1] + 1][p2[1] + 1][Abs(p2[2] - p1[2]) + 1]

\* where gps_mock puts the person, and where shelters stand
MockLocations == {<<0, 1>>, <<1, 1>>}
ShelterPlaces == {<<0, 0>>, <<0, 1>>, <<0, 2>>, <<0, 3>>}

\* row.name of a row yielded by iterrows() is the row's index label
RowLabels == <<"0", "1", "2", "3", "4">>

\* line 424: the list of (lat, lon, name) built from the shelters frame
SheltersList(places) ==
    [i \in 1..Len(places) |-> <<places[i][1], places[i][2], RowLabels[i]>>]

ShelterFrames ==
    UNION {[1..n -> ShelterPlaces] : n \in 0..MaxShelters}

\* min() keeping the last of several smallest items
RECURSIVE MutPyMin(_, _, _, _)
MutPyMin(list, origin, i, best) ==
    IF i > Len(list) THEN best
    ELSE MutPyMin(list, origin, i + 1,
                  IF haversine_km(origin, <<list[i][1], list[i][2]>>)
                        <= haversine_km(origin, <<list[best][1], list[best][2]>>)
                  THEN i ELSE best)

\* line 426: min(shelters_list, key=...), the index of the item returned:
\* min() keeps the first of several smallest items
RECURSIVE PyMin(_, _, _, _)
PyMin(list, origin, i, best) ==
    IF i > Len(list) THEN best
    ELSE PyMin(list, origin, i + 1,
               IF haversine_km(origin, <<list[i][1], list[i][2]>>)
                     < haversine_km(origin, <<list[best][1], list[best][2]>>)
               THEN i ELSE best)

\* line 430-431: eta_min = int(dist_km / 4.5 * 60)
EtaMin(dist_km) == IF dist_km > 0 THEN dist_km \div 75000 ELSE 0

\* lines 433-436: the static fallback shelter (9.93, 76.27), in hundredths
\* of a degree, 1.5 km away, 20 minutes
FallbackCoord == <<993, 7627>>
FallbackDistKm == 1500000
FallbackEtaMin == 20

\* no else branch: min() of an empty list raises ValueError
MutNearestShelter(origin, shelters_list) ==
    LET idx == IF shelters_list = <<>> THEN 0
               ELSE PyMin(shelters_list, origin, 1, 1)
    IN [branch |-> IF idx = 0 THEN "error" ELSE "nearest", idx |-> idx,
        target_coord |-> IF idx = 0 THEN origin
                         ELSE <<shelters_list[idx][1], shelters_list[idx][2]>>,
        target_name |-> IF idx = 0 THEN "" ELSE shelters_list[idx][3],
        dist_km |-> 0, eta_min |-> 0]

\* lines 425-436
NearestShelter(origin, shelters_list) ==
    IF shelters_list # <<>>
    THEN LET idx == PyMin(shelters_list, origin, 1, 1)
             target == shelters_list[idx]
             target_coord == <<target[1], target[2]>>
             dist_km == haversine_km(origin, target_coord)
         IN [branch |-> "nearest", idx |-> idx,
             target_coord |-> target_coord, target_name |-> target[3],
             dist_km |-> dist_km, eta_min |-> EtaMin(dist_km)]
    ELSE [branch |-> "fallback", idx |-> 0,
          target_coord |-> FallbackCoord, target_name |-> "Fallback Shelter",
          dist_km |-> FallbackDistKm, eta_min |-> FallbackEtaMin]

NoLocate == [origin |-> <<0, 0>>, shelters_list |-> <<>>,
             out |-> [branch |-> "none", idx |-> 0, target_coord |-> <<0, 0>>,
                      target_name |-> "", dist_km |-> 0, eta_min |-> 0]]

\* the shelter selection of one cycle
LocateShelter ==
    \E origin \in MockLocations, places \in ShelterFrames :
        /\ locate' = [origin |-> origin,
                      shelters_list |-> SheltersList(places),
                      out |-> NearestShelter(origin, SheltersList(places))]
        /\ UNCHANGED <<advisoryVars, world, cycle, disp, edge, threads, session>>


NoCycle == [find_route |-> FALSE, online |-> FALSE, fetch |-> "none",
            load |-> LoadGraph(FALSE, "none", "absent", NoGraph),
            G |-> NoGraph, G_blocked |-> NoGraph, blocked |-> NoGraph,
            same |-> TRUE,
            origin |-> Origin, target |-> Origin, mode |-> "Shortest",
            searched |-> FALSE, snapped |-> FALSE,
            path |-> <<>>, found |-> NoRoute,
            route |-> NoRoute, used |-> "Shortest",
            dist_km |-> 0, eta_min |-> 0]

NoWorld == [graph |-> NoGraph, file |-> "absent", hazards |-> {}]

\* what the environment does when load_graph runs
FetchChoices(online) == IF online THEN {"ok", "failed"} ELSE {"none"}

\* G.copy() runs only for a graph and a non-empty hazard collection
CopyChoices(G, hazards) ==
    IF G # NoGraph /\ hazards # {} THEN {"ok", "failed"} ELSE {"ok"}

\* one decision cycle, app.py lines 399-471
DecisionCycle ==
    \E offline_mode \in BOOLEAN, target \in Points, mode \in RouteModes,
       find_route \in BOOLEAN :
    \E fetch \in FetchChoices(~offline_mode) :
        LET load == LoadGraph(~offline_mode, fetch, world.file, world.graph)
            G == load.graph
        IN \E copy \in CopyChoices(G, world.hazards) :
        LET blk == BlockEdgesByHazards(G, world.hazards, copy)
            search == find_route /\ blk.graph # NoGraph
            after == IF search THEN GraphAfter(blk.graph, mode) ELSE blk.graph
        IN \E snapWorks \in IF search THEN BOOLEAN ELSE {TRUE} :
           \E res \in IF search
                      THEN PathSearch(after, Origin, target, WeightAttr(mode), snapWorks)
                      ELSE {[path |-> <<>>, route |-> NoRoute]} :
        LET out == RouteBlock(find_route, blk.graph, mode, res.route, Origin, target)
            \* lines 424-431, for a frame whose nearest row stands at target
            near == NearestShelter(Origin, SheltersList(<<target>>))
        IN /\ cycle' = [find_route |-> find_route, online |-> ~offline_mode,
                        fetch |-> fetch, load |-> load,
                        G |-> IF blk.same THEN after ELSE G,
                        G_blocked |-> blk.graph,
                        blocked |-> after, same |-> blk.same,
                        origin |-> Origin, target |-> target, mode |-> mode,
                        searched |-> search, snapped |-> search /\ snapWorks,
                        path |-> res.path, found |-> res.route,
                        route |-> out.route, used |-> out.used,
                        dist_km |-> near.dist_km, eta_min |-> near.eta_min]
           /\ UNCHANGED <<advisoryVars, world, auxVars>>

(***************************************************************************)
(* dispatch: src/src/authority.py.  Distances in millimetres, so that      *)
(* int(dist_m / 4.166) is dist \div 4166 and int(dist_m) is dist \div 1000.*)
(***************************************************************************)
PLAYBOOKS ==
    [r \in {"Local Authority", "First Responder", "Community Leader"} |->
        CASE r = "Local Authority" ->
                <<"Issue public advisory", "Activate shelters", "Coordinate transport">>
          [] r = "First Responder" ->
                <<"Dispatch ground team", "Prepare medical aid", "Coordinate with command">>
          [] OTHER ->
                <<"Open local shelter", "Broadcast instructions", "Assist elderly">>]

DispatchRoles == DOMAIN PLAYBOOKS \cup {"Authority"}

\* the coordinate pairs dispatch is called with; the last two are malformed
DispatchPointSeq ==
    <<<<88, 179>>, <<88, 180>>, <<89, 179>>, <<89, 180>>, <<91, 180>>, <<89, 181>>>>
DispatchPoints == {DispatchPointSeq[i] : i \in DOMAIN DispatchPointSeq}

\* lines 20-28 evaluated by the code's formula (R = 6371000) for the pairs of
\* DispatchPointSeq
DispatchDistTable ==
    <<<<0, 3880597, 111194926, 111228785, 333573487, 111330290>>,
      <<3880597, 0, 111228785, 111194926, 333584779, 111228785>>,
      <<111194926, 111228785, 0, 1940594, 222381384, 3881041>>,
      <<111228785, 111194926, 1940594, 0, 222389853, 1940594>>,
      <<333573487, 333584779, 222381384, 222389853, 0, 222381384>>,
      <<111330290, 111228785, 3881041, 1940594, 222381384, 0>>>>

DispatchDist(origin, target) ==
    LET i == CHOOSE k \in DOMAIN DispatchPointSeq : DispatchPointSeq[k] = origin
        j == CHOOSE k \in DOMAIN DispatchPointSeq : DispatchPointSeq[k] = target
    IN DispatchDistTable[i][j]

\* None, as an eta; a timedelta is the one-element sequence of its seconds
NoneEta == <<>>

\* dispatch, lines 13-34
Dispatch(role, origin, target) ==
    LET actions == DictGet(PLAYBOOKS, role, PLAYBOOKS["Local Authority"])
        dist_m == DispatchDist(origin, target)
        eta_seconds == dist_m \div 4166
        \* line 32: a float 0.0 is falsy
        eta == IF dist_m # 0 THEN <<eta_seconds>> ELSE NoneEta
    IN [actions |-> actions, eta |-> eta, distance_m |-> dist_m \div 1000,
        rejected |-> FALSE]

NoDispatch == [role |-> "", origin |-> <<0, 0>>, target |-> <<0, 0>>,
               out |-> [actions |-> <<>>, eta |-> NoneEta, distance_m |-> 0,
                        rejected |-> FALSE]]

DispatchCall ==
    \E role \in DispatchRoles, origin \in DispatchPoints, target \in DispatchPoints :
        /\ disp' = [role |-> role, origin |-> origin, target |-> target,
                    out |-> Dispatch(role, origin, target)]
        /\ UNCHANGED <<advisoryVars, world, cycle, locate, edge, threads, session>>

(***************************************************************************)
(* The travel-time loop of compute_fastest_path, src/src/routing.py lines  *)
(* 78-83, applied to the two edges of a graph.                             *)
(***************************************************************************)
MaxMetres == 3        \* edge lengths range over 0..MaxMetres

SpeedValues == {0, 30, 50}

\* the attribute dicts an edge can carry: length and speed_kph both optional
EdgeDatas ==
    {[k \in keys |-> IF k = "length" THEN len ELSE speed] :
        keys \in SUBSET {"length", "speed_kph"},
        len \in 0..MaxMetres, speed \in SpeedValues}

NoEdge == <<>>

\* lines 78-83 over G.edges(keys=True, data=True)
FastestWeights ==
    \E datas \in [1..2 -> EdgeDatas] :
        /\ edge' = [i \in 1..2 |-> DictSet(datas[i], "time", TimeOf(datas[i]))]
        /\ UNCHANGED <<advisoryVars, world, cycle, locate, disp, threads, session>>


(***************************************************************************)
(* Two sessions of one server process inside generate_advisory, after the  *)
(* upstream generator has answered each of them: src/src/llm_insights.py   *)
(* lines 65-79.  The sessions are threads that share the module globals    *)
(* and the cache file; no lock is taken.  The content of the file is a     *)
(* sequence of tokens: an opening brace, one token per entry, a closing    *)
(* brace.                                                                  *)
(***************************************************************************)
Sessions == {1, 2}

\* json.dump(LOCAL_CACHE, f, indent=2): the entries between braces
RECURSIVE JsonEntries(_, _)
JsonEntries(d, i) ==
    IF i > Len(SeverityTiers) THEN <<>>
    ELSE (IF SeverityTiers[i] \in DOMAIN d
          THEN <<<<SeverityTiers[i], d[SeverityTiers[i]]>>>>
          ELSE <<>>) \o JsonEntries(d, i + 1)

JsonDump(d) == <<<<"{">>>> \o JsonEntries(d, 1) \o <<<<"}">>>>

\* json.load: the dict, when the tokens are one well-formed object
JsonLoad(bytes) ==
    IF /\ Len(bytes) >= 2
       /\ bytes[1] = <<"{">> /\ bytes[Len(bytes)] = <<"}">>
       /\ \A i \in 2..(Len(bytes) - 1) : Len(bytes[i]) = 2
    THEN FileValid([k \in {bytes[i][1] : i \in 2..(Len(bytes) - 1)} |->
                      LET last == CHOOSE i \in 2..(Len(bytes) - 1) :
                                    /\ bytes[i][1] = k
                                    /\ \A j \in (i + 1)..(Len(bytes) - 1) :
                                          bytes[j][1] # k
                      IN bytes[last][2]])
    ELSE FileCorrupt

\* the bytes of a file as InitAdvisory finds it
BytesOf(file) == IF file.state = "valid" THEN JsonDump(file.data) ELSE <<>>

\* closing a file opened with "w" flushes the buffer at offset 0; what lies
\* beyond the buffer's length stays
Overwrite(old, buf) ==
    IF Len(buf) >= Len(old) THEN buf
    ELSE buf \o SubSeq(old, Len(buf) + 1, Len(old))

NoThreads == [file |-> <<>>, s |-> <<>>]

SessionTexts == <<<<"a">>, <<"b">>>>

InitThreads ==
    /\ InitAdvisory /\ clientLib # "none" /\ world = NoWorld /\ cycle = NoCycle
    /\ \E sev \in [Sessions -> Severities] :
        /\ sev[1] # sev[2]
        /\ threads = [file |-> BytesOf(cacheFile),
                      s |-> [t \in Sessions |->
                               [pc |-> "start", severity |-> sev[t],
                                text |-> SessionTexts[t], dom |-> {},
                                buf |-> <<>>, result |-> <<>>]]]

\* line 67: LOCAL_CACHE[severity] = text
Store(t) ==
    /\ threads.s[t].pc = "start"
    /\ LOCAL_CACHE' = DictSet(LOCAL_CACHE, threads.s[t].severity, threads.s[t].text)
    /\ threads' = [threads EXCEPT !.s[t].pc = "stored"]
    /\ UNCHANGED <<OPENAI_DISABLED, cacheFile, clientLib, writeFailed, call,
                   world, cycle, locate, disp, edge, session>>

\* line 68: open(CACHE_PATH, "w") truncates the file
OpenFile(t) ==
    /\ threads.s[t].pc = "stored"
    /\ threads' = [threads EXCEPT !.file = <<>>, !.s[t].pc = "opened"]
    /\ cacheFile' = JsonLoad(<<>>)
    /\ UNCHANGED <<OPENAI_DISABLED, LOCAL_CACHE, clientLib, writeFailed, call,
                   world, cycle, locate, disp, edge, session>>

\* line 69: json.dump starts to iterate over LOCAL_CACHE
DumpStart(t) ==
    /\ threads.s[t].pc = "opened"
    /\ threads' = [threads EXCEPT !.s[t].pc = "dumping",
                                  !.s[t].dom = DOMAIN LOCAL_CACHE]
    /\ UNCHANGED <<advisoryVars, world, cycle, locate, disp, edge, session>>

\* line 69: the iteration ends; it raises RuntimeError (dictionary changed
\* size during iteration) when a key was inserted meanwhile, with the opening
\* brace alone in the buffer
DumpEnd(t) ==
    /\ threads.s[t].pc = "dumping"
    /\ threads' = IF DOMAIN LOCAL_CACHE = threads.s[t].dom
                  THEN [threads EXCEPT !.s[t].pc = "dumped",
                                       !.s[t].buf = JsonDump(LOCAL_CACHE)]
                  ELSE [threads EXCEPT !.s[t].pc = "raised",
                                       !.s[t].buf = <<<<"{">>>>]
    /\ UNCHANGED <<advisoryVars, world, cycle, locate, disp, edge, session>>

\* the with block is left: the file is closed and the buffer flushed; then
\* line 70 returns text, or, after the exception (its message holds no
\* 'quota'), line 79 returns LOCAL_CACHE.get(severity, ...)
CloseFile(t) ==
    /\ threads.s[t].pc \in {"dumped", "raised"}
    /\ LET bytes == Overwrite(threads.file, threads.s[t].buf)
           me == threads.s[t]
       IN /\ threads' = [threads EXCEPT
                            !.file = bytes, !.s[t].pc = "done",
                            !.s[t].result =
                                IF me.pc = "dumped" THEN me.text
                                ELSE Fallback(LOCAL_CACHE, me.severity)]
          /\ cacheFile' = JsonLoad(bytes)
    /\ UNCHANGED <<OPENAI_DISABLED, LOCAL_CACHE, clientLib, writeFailed, call,
                   world, cycle, locate, disp, edge, session>>

NextThreads ==
    \E t \in Sessions :
        Store(t) \/ OpenFile(t) \/ DumpStart(t) \/ DumpEnd(t) \/ CloseFile(t)


(***************************************************************************)
(* The session part of a decision cycle, src/app.py: risk scoring and      *)
(* fusion (lines 318-331), the risk history kept in st.session_state       *)
(* (lines 333-344) and the automatic SMS alert of the Authority view       *)
(* (lines 695-729).  Scores are in hundredths.  risk_disaster, risk_crowd, *)
(* fusion_engine and alerting are called, not modelled: a call returns one *)
(* of the listed results or raises.                                        *)
(***************************************************************************)
MaxCycles == 52       \* decision cycles of one session

HistoryLimit == 50

\* what score_disaster (line 320) and score_crowd (line 321) can do
DisasterOutcomes ==
    {[status |-> "raised", score |-> 0, drivers |-> <<>>],
     [status |-> "ok", score |-> 80, drivers |-> <<"Heavy rainfall">>]}

CrowdOutcomes ==
    {[status |-> "raised", score |-> 0, drivers |-> <<>>],
     [status |-> "ok", score |-> 60, drivers |-> <<"High crowd density">>]}

\* score_crowd is not reached when score_disaster raised
NotCalled == [status |-> "skipped", score |-> 0, drivers |-> <<>>]

\* lines 318-325: one try block around both calls, one handler for both
ScoreRisks(d, c) ==
    IF d.status = "ok" /\ c.status = "ok"
    THEN [disaster_score |-> d.score, drivers |-> d.drivers,
          crowd_score |-> c.score, crowd_drivers |-> c.drivers]
    ELSE [disaster_score |-> 0, drivers |-> <<"Error in disaster scoring">>,
          crowd_score |-> 0, crowd_drivers |-> <<"Error in crowd scoring">>]

\* what fusion_engine.fuse (line 328) can do: return a tier, or raise
FuseOutcomes == {SeverityTiers[i] : i \in DOMAIN SeverityTiers} \cup {"raised"}

\* lines 327-331
FuseSeverity(f) == IF f = "raised" THEN "Medium" ELSE f

\* lines 343-344: risk_history[-50:] when the list is longer than 50
MutKeepLast(h) ==
    IF Len(h) > HistoryLimit THEN SubSeq(h, 1, HistoryLimit) ELSE h

KeepLast(h) ==
    IF Len(h) > HistoryLimit
    THEN SubSeq(h, Len(h) - HistoryLimit + 1, Len(h))
    ELSE h

\* lines 335-344; an entry is told by its timestamp, the scores and the
\* severity it carries besides are those of the cycle that appended it
RecordRisk(h, now) == KeepLast(Append(h, [timestamp |-> now]))

\* line 169
UserRoles == {"Citizen", "Authority"}

\* lines 696, 719 and 720: whether send_twilio_sms is called in this cycle
MutAlertAttempted(role, enabled, severity, sent) ==
    role = "Authority" /\ enabled /\ severity \in {"High", "Critical"}

AlertAttempted(role, enabled, severity, sent) ==
    /\ role = "Authority"
    /\ enabled
    /\ severity \in {"High", "Critical"}
    /\ ~sent

\* what alerting.send_twilio_sms (line 721) can do: return (True, msg),
\* return (False, msg), or raise, which ends the run of the script
SmsOutcomes == {"ok", "failed", "raised"}

\* line 725: auto_sms_sent = ok, after a call that returned
SentAfter(sent, attempted, sms) ==
    IF attempted /\ sms # "raised" THEN sms = "ok" ELSE sent

NoLast == [d |-> NotCalled, c |-> NotCalled,
           risk |-> ScoreRisks(NotCalled, NotCalled), fuse |-> "raised",
           severity |-> "", role |-> "", enabled |-> FALSE,
           attempted |-> FALSE, sms |-> "none"]

\* lines 142-143 and the default of line 720
\* sms_failed is history: an automatic alert of this session has failed
NoSession == [now |-> 0, risk_history |-> <<>>, auto_sms_sent |-> FALSE,
              sms_failed |-> FALSE, last |-> NoLast]

\* one run of the script for the session: lines 318-344 and 695-729
SessionCycle ==
    /\ session.now < MaxCycles
    /\ \E d \in DisasterOutcomes, f \in FuseOutcomes, role \in UserRoles :
       \E c \in (IF d.status = "ok" THEN CrowdOutcomes ELSE {NotCalled}),
          enabled \in (IF role = "Authority" THEN BOOLEAN ELSE {FALSE}) :
         LET now == session.now + 1
             severity == FuseSeverity(f)
             attempted == AlertAttempted(role, enabled, severity,
                                         session.auto_sms_sent)
         IN \E sms \in (IF attempted THEN SmsOutcomes ELSE {"none"}) :
              session' =
                [now |-> now,
                 risk_history |-> RecordRisk(session.risk_history, now),
                 auto_sms_sent |-> SentAfter(session.auto_sms_sent, attempted, sms),
                 sms_failed |-> session.sms_failed \/ sms \in {"failed", "raised"},
                 last |-> [d |-> d, c |-> c, risk |-> ScoreRisks(d, c),
                           fuse |-> f, severity |-> severity, role |-> role,
                           enabled |-> enabled, attempted |-> attempted,
                           sms |-> sms]]
    /\ UNCHANGED <<advisoryVars, world, cycle, locate, disp, edge, threads>>


InitAux ==
    /\ locate = NoLocate /\ disp = NoDispatch /\ edge = NoEdge
    /\ threads = NoThreads /\ session = NoSession

InitRoute ==
    /\ OPENAI_DISABLED = FALSE
    /\ cacheFile = FileAbsent
    /\ LOCAL_CACHE = EmptyDict
    /\ clientLib = "none"
    /\ writeFailed = FALSE
    /\ call = NoCall
    /\ world \in [graph : WorldGraphs, file : {"absent", "ok", "unreadable"},
                  hazards : HazardSets]
    /\ cycle = NoCycle
    /\ InitAux

NextRoute == DecisionCycle

SpecRoute == InitRoute /\ [][NextRoute]_vars

Init == InitAdvisory /\ world = NoWorld /\ cycle = NoCycle /\ InitAux

\* the specifications of the nearest-shelter selection, of dispatch, of the
\* travel-time loop and of the two concurrent sessions
InitIdle ==
    /\ OPENAI_DISABLED = FALSE
    /\ cacheFile = FileAbsent
    /\ LOCAL_CACHE = EmptyDict
    /\ clientLib = "none"
    /\ writeFailed = FALSE
    /\ call = NoCall
    /\ world = NoWorld
    /\ cycle = NoCycle
    /\ InitAux

SpecShelter == InitIdle /\ [][LocateShelter]_vars

SpecDispatch == InitIdle /\ [][DispatchCall]_vars

SpecFastest == InitIdle /\ [][FastestWeights]_vars

InitSessions ==
    /\ InitThreads /\ locate = NoLocate /\ disp = NoDispatch /\ edge = NoEdge
    /\ session = NoSession

SpecThreads == InitSessions /\ [][NextThreads]_vars

SpecSession == InitIdle /\ [][SessionCycle]_vars

Next == NextAdvisory

Spec == Init /\ [][Next]_vars

(***************************************************************************)
(* Properties of the advisory generator, checked under Spec.               *)
(***************************************************************************)

\* C1: once the breaker is Open, a generate_advisory call does not invoke the
\* upstream generator, whatever the severity, the drivers, the role and the
\* API-key configuration are, and it returns the cache entry of the severity,
\* or the template when there is none.
C1_OpenSkipsUpstream ==
    (call # NoCall /\ call.before) =>
        /\ ~call.invoked
        /\ call.up = "skipped"
        /\ OPENAI_DISABLED
        /\ call.result = IF call.severity \in DOMAIN LOCAL_CACHE
                         THEN LOCAL_CACHE[call.severity]
                         ELSE <<call.severity, " advisory: follow local instructions.">>
        /\ ~writeFailed =>
              call.result = IF cacheFile.state = "valid"
                               /\ call.severity \in DOMAIN cacheFile.data
                            THEN cacheFile.data[call.severity]
                            ELSE <<call.severity, " advisory: follow local instructions.">>

\* a call made with an API key and a client library while the breaker is Open
C1_Witness ==
    /\ call # NoCall /\ call.before /\ call.key /\ clientLib # "none"
    /\ call.severity \in DOMAIN LOCAL_CACHE

\* C2: the breaker flag is false when a process starts, and no
\* generate_advisory call sets it back to false once it is true.
C2_BreakerOneWay ==
    /\ [](call = NoCall => ~OPENAI_DISABLED)
    /\ [][(OPENAI_DISABLED /\ call' # NoCall) => OPENAI_DISABLED']_vars

\* the flag is still true after a call that was made while it was true
C2_Witness == OPENAI_DISABLED /\ call # NoCall /\ call.before /\ call.key

\* C3: a call in which the upstream generator failed with a hard error
\* (quota exhaustion or an authentication failure) leaves the breaker Open
\* and returns the cache entry or the template.
C3_HardErrorOpens ==
    (call.invoked /\ call.up \in {"quota", "auth"}) =>
        /\ OPENAI_DISABLED
        /\ call.result = IF call.severity \in DOMAIN LOCAL_CACHE
                         THEN LOCAL_CACHE[call.severity]
                         ELSE <<call.severity, " advisory: follow local instructions.">>

\* C4: a call in which the upstream generator failed with a transient error
\* (network, timeout) returns the cache entry of the severity, or the
\* template, and leaves the breaker Closed; the next call that has an API key
\* and a client library invokes the upstream generator again.
C4_TransientFallsBack ==
    /\ []((call.invoked /\ call.up \in {"network", "timeout"}) =>
            /\ ~OPENAI_DISABLED
            /\ call.result = IF call.severity \in DOMAIN LOCAL_CACHE
                             THEN LOCAL_CACHE[call.severity]
                             ELSE <<call.severity, " advisory: follow local instructions.">>
            /\ ~writeFailed =>
                  call.result = IF cacheFile.state = "valid"
                                   /\ call.severity \in DOMAIN cacheFile.data
                                THEN cacheFile.data[call.severity]
                                ELSE <<call.severity, " advisory: follow local instructions.">>)
    /\ [][(/\ call.invoked /\ call.up \in {"network", "timeout"}
           /\ call' # NoCall /\ call'.key /\ clientLib # "none")
          => call'.invoked]_vars

\* a transient failure answered from the cache
C4_Witness ==
    /\ call.invoked /\ call.up = "timeout"
    /\ call.severity \in DOMAIN LOCAL_CACHE
    /\ call.result = LOCAL_CACHE[call.severity]

\* C5: a call in which the upstream generator produced a text stores it
\* under the severity in the cache, replacing the earlier entry and leaving
\* the other entries, dumps the cache to the file, and returns that text;
\* a call that falls back returns the entry stored last for its severity.
C5_SuccessStoresAndReturns ==
    /\ []((call.up = "ok" /\ call.text # <<>>) =>
            /\ call.result = call.text
            /\ call.severity \in DOMAIN LOCAL_CACHE
            /\ LOCAL_CACHE[call.severity] = call.text
            /\ call.wr.kind = "ok" =>
                  /\ cacheFile.state = "valid"
                  /\ cacheFile.data = LOCAL_CACHE)
    /\ [][call' # NoCall =>
            IF call'.up = "ok" /\ call'.text # <<>>
            THEN /\ DOMAIN LOCAL_CACHE' = DOMAIN LOCAL_CACHE \cup {call'.severity}
                 /\ \A k \in DOMAIN LOCAL_CACHE \ {call'.severity} :
                        LOCAL_CACHE'[k] = LOCAL_CACHE[k]
            ELSE /\ LOCAL_CACHE' = LOCAL_CACHE
                 /\ call'.severity \in DOMAIN LOCAL_CACHE =>
                        call'.result = LOCAL_CACHE[call'.severity]]_vars

\* a generated text has replaced a different earlier entry, in memory and in
\* the file, while the other severity keeps its entry
C5_Witness ==
    /\ call.up = "ok" /\ call.text # <<>> /\ call.wr.kind = "ok"
    /\ call.prior # <<>> /\ call.prior # call.text
    /\ cacheFile.state = "valid"
    /\ cacheFile.data[call.severity] = call.text
    /\ DOMAIN cacheFile.data # {call.severity}

(***************************************************************************)
(* Properties of graph loading and routing, checked under SpecRoute.       *)
(***************************************************************************)

\* C6: for each of the three strategies, when a route is requested and the
\* graph is unavailable, or no path joins the snapped nodes, or the search
\* gave fewer than 2 points, the route delivered is exactly <<origin, target>>
\* and its tag is a fallback tag, not a strategy; no delivered route has one
\* point.
C6_FallbackRoute ==
    /\ (/\ cycle.find_route
        /\ \/ cycle.load.graph = NoGraph
           \/ cycle.blocked = NoGraph
           \/ \A o \in NearestNodes(cycle.blocked, cycle.origin),
                 t \in NearestNodes(cycle.blocked, cycle.target) :
                    PathsBetween(cycle.blocked, o, t) = {}
           \/ Len(cycle.found) < 2)
       => /\ cycle.route = <<cycle.origin, cycle.target>>
          /\ cycle.used \in FallbackTags
          /\ cycle.used \notin RouteModes
    /\ Len(cycle.route) # 1

\* the Safest search gave a single point (origin and target snap to the same
\* node) and the straight line was delivered instead
C6_Witness ==
    /\ cycle.find_route /\ cycle.mode = "Safest"
    /\ Len(cycle.found) = 1
    /\ cycle.route = <<cycle.origin, cycle.target>>
    /\ cycle.used = "Grid fallback"

\* C7: when online is preferred, the live fetch fails and a cached graph is
\* in durable storage, load_graph returns the cached graph; it returns None
\* only when the fetch and the cache load have both failed.
C7_CacheAfterOnlineFails ==
    /\ (cycle # NoCycle /\ cycle.online /\ cycle.fetch = "failed"
        /\ world.file = "ok")
       => /\ cycle.load.graph = world.graph
          /\ cycle.load.from = "cache"
    /\ (cycle # NoCycle /\ cycle.load.graph = NoGraph)
       => /\ cycle.online => cycle.fetch = "failed"
          /\ world.file # "ok"

\* C8: load_graph lets no failure of the fetch or of the cache load out: it
\* returns a graph or None, after at most one online attempt and at most one
\* cache-load attempt.
C8_LoadGraphSwallows ==
    cycle # NoCycle =>
        /\ ~cycle.load.raised
        /\ cycle.load.graph \in {NoGraph, world.graph}
        /\ cycle.load.onlineTries <= 1
        /\ cycle.load.cacheTries <= 1

\* the cache load was tried once, failed, and None came back
C8_Witness ==
    /\ cycle # NoCycle /\ ~cycle.online /\ world.file = "unreadable"
    /\ cycle.load.cacheTries = 1
    /\ cycle.load.graph = NoGraph
    /\ ~cycle.load.raised

\* C9: after block_edges_by_hazards with a non-empty hazard collection, an
\* edge that intersects a zone has a hazard_penalty above 0 that grows with
\* the highest risk level among the zones it intersects, and an edge that
\* intersects no zone has hazard_penalty 0.
C9_HazardPenalty ==
    (cycle.blocked # NoGraph /\ world.hazards # {}) =>
        LET penalty(e) == DictGet(cycle.blocked.edges[e], "hazard_penalty", 0)
            zonesOf(e) == {z \in world.hazards : {e[1], e[2]} \in z.covers}
            top(e) == CHOOSE i \in DOMAIN RiskOrder :
                        /\ \E z \in zonesOf(e) : z.risk = RiskOrder[i]
                        /\ \A z \in zonesOf(e) :
                              \E j \in 1..i : z.risk = RiskOrder[j]
        IN /\ \A e \in DOMAIN cycle.blocked.edges :
                IF zonesOf(e) = {} THEN penalty(e) = 0 ELSE penalty(e) > 0
           /\ \A e, f \in DOMAIN cycle.blocked.edges :
                (zonesOf(e) # {} /\ zonesOf(f) # {} /\ top(e) < top(f))
                    => penalty(e) < penalty(f)

\* C10: with strategy Safest, when every shortest path between the snapped
\* nodes crosses a hazard zone and a path free of hazards exists, the route
\* delivered is a search result that crosses no zone; when no path free of
\* hazards exists, the route delivered is tagged as a fallback.
C10_SafestAvoidsHazard ==
    (cycle.find_route /\ cycle.mode = "Safest" /\ cycle.snapped
     /\ cycle.blocked # NoGraph) =>
        LET hazardous(q) ==
                \E i \in 1..(Len(q) - 1), z \in world.hazards :
                    {q[i], q[i + 1]} \in z.covers
        IN \A o \in NearestNodes(world.graph, cycle.origin),
              t \in NearestNodes(world.graph, cycle.target) :
            LET shortest == NxShortestPaths(world.graph, o, t, "length")
                safe == {q \in PathsBetween(world.graph, o, t) : ~hazardous(q)}
            IN (shortest # {} /\ \A q \in shortest : hazardous(q)) =>
                 IF safe # {}
                 THEN /\ cycle.used = "Safest"
                      /\ cycle.path # <<>>
                      /\ ~hazardous(cycle.path)
                 ELSE cycle.used \in FallbackTags

\* C11: after the routing calls of a cycle, the graph object load_graph
\* returned has the edges and the edge attributes it had when it was loaded:
\* block_edges_by_hazards, compute_shortest_path, compute_fastest_path and
\* compute_safest_path write no time or safe_weight into it.
C11_ProviderGraphUntouched ==
    (cycle # NoCycle /\ cycle.load.graph # NoGraph) =>
        cycle.G = cycle.load.graph

C13_NearestFirstMinimum ==
    (locate # NoLocate /\ locate.shelters_list # <<>>) =>
        LET l == locate.shelters_list
            i == locate.out.idx
            d(k) == haversine_km(locate.origin, <<l[k][1], l[k][2]>>)
        IN /\ locate.out.branch = "nearest"
           /\ i \in 1..Len(l)
           /\ locate.out.target_coord = <<l[i][1], l[i][2]>>
           /\ locate.out.target_name = l[i][3]
           /\ locate.out.dist_km = d(i)
           /\ \A k \in 1..Len(l) : d(i) <= d(k)
           /\ \A k \in 1..(i - 1) : d(i) < d(k)
           /\ (Len(l) = 1 /\ <<l[1][1], l[1][2]>> = locate.origin) =>
                  locate.out.dist_km = 0

\* the second and the third shelter stand at different places, equally near
\* and nearer than the first, and the second is the target
C13_Witness ==
    /\ locate # NoLocate /\ Len(locate.shelters_list) = 3
    /\ locate.out.idx = 2
    /\ \E k \in 1..3 :
          /\ k > 2
          /\ locate.shelters_list[k][2] # locate.shelters_list[2][2]
          /\ haversine_km(locate.origin, <<locate.shelters_list[k][1],
                                           locate.shelters_list[k][2]>>)
                = locate.out.dist_km

\* C14: with an empty shelters list the cycle takes the static fallback
\* shelter, with its distance 1.5 km and its 20 minutes, and raises nothing;
\* the fallback shelter is taken only with an empty list.
C14_EmptyListDefault ==
    locate # NoLocate =>
        /\ locate.out.branch # "error"
        /\ locate.shelters_list = <<>> =>
              /\ locate.out.branch = "fallback"
              /\ locate.out.target_coord = FallbackCoord
              /\ locate.out.target_name = "Fallback Shelter"
              /\ locate.out.dist_km = FallbackDistKm
              /\ locate.out.eta_min = FallbackEtaMin
        /\ (locate.out.branch = "fallback"
            \/ locate.out.target_coord = FallbackCoord) =>
              locate.shelters_list = <<>>

\* a cycle with no shelter
C14_Witness ==
    /\ locate # NoLocate /\ locate.shelters_list = <<>>
    /\ locate.out.target_name = "Fallback Shelter"

\* C15: in a cycle whose route came from the graph search, eta_min is derived
\* from the length of that route (at 4.5 km/h), not from the straight-line
\* distance to the shelter.
C15_EtaFromRoute ==
    (cycle.find_route /\ cycle.used \in RouteModes /\ RouteValid(cycle.found)) =>
        LET r == cycle.route
            \* a route of the model has 2 or 3 points
            routeLengthKm == IF Len(r) = 2 THEN haversine_km(r[1], r[2])
                             ELSE haversine_km(r[1], r[2]) + haversine_km(r[2], r[3])
        IN cycle.eta_min = EtaMin(routeLengthKm)

\* C16: for valid coordinates, origin = target included, dispatch returns the
\* checklist of the role (that of Local Authority for an unknown role) and an
\* eta of distance / 4.166 seconds, a zero duration when the distance is zero.
C16_DispatchEta ==
    LET valid(p) == -90 <= p[1] /\ p[1] <= 90 /\ -180 <= p[2] /\ p[2] <= 180
    IN (disp # NoDispatch /\ valid(disp.origin) /\ valid(disp.target)) =>
        /\ disp.out.actions = IF disp.role \in DOMAIN PLAYBOOKS
                              THEN PLAYBOOKS[disp.role]
                              ELSE PLAYBOOKS["Local Authority"]
        /\ disp.out.eta = <<DispatchDist(disp.origin, disp.target) \div 4166>>

\* C17: dispatch rejects a latitude outside [-90, 90] or a longitude outside
\* [-180, 180] and returns no actions and no eta computed from them.
C17_DispatchRejects ==
    LET valid(p) == -90 <= p[1] /\ p[1] <= 90 /\ -180 <= p[2] /\ p[2] <= 180
    IN (disp # NoDispatch /\ ~(valid(disp.origin) /\ valid(disp.target))) =>
        /\ disp.out.rejected
        /\ disp.out.actions = <<>>
        /\ disp.out.eta = NoneEta

\* C18: every time weight is non-negative, and edges of one length whose
\* speed is missing or zero get one and the same time weight (one default
\* speed serves both).
C18_OneDefaultSpeed ==
    edge # NoEdge =>
        LET noSpeed(i) == "speed_kph" \notin DOMAIN edge[i] \/ edge[i]["speed_kph"] = 0
            sameLength(i, j) ==
                /\ ("length" \in DOMAIN edge[i]) = ("length" \in DOMAIN edge[j])
                /\ "length" \in DOMAIN edge[i] => edge[i]["length"] = edge[j]["length"]
        IN /\ \A i \in DOMAIN edge : edge[i]["time"] >= 0
           /\ \A i, j \in DOMAIN edge :
                (noSpeed(i) /\ noSpeed(j) /\ sameLength(i, j))
                    => edge[i]["time"] = edge[j]["time"]

\* C19: a process starts with the breaker Closed and with the entries of the
\* cache file in its cache; a restart keeps the file, and the entries the old
\* process had stored are the entries of the new one (given that the old
\* process's last dump was written); a fallback call of the new process
\* returns the entry of its severity.
C19_CacheSurvivesRestart ==
    /\ [](call = NoCall =>
            /\ ~OPENAI_DISABLED
            /\ LOCAL_CACHE = cacheFile.data)
    /\ [][(call # NoCall /\ call' = NoCall) =>
            /\ cacheFile' = cacheFile
            /\ ~writeFailed => LOCAL_CACHE' = LOCAL_CACHE]_vars
    /\ [][(/\ call = NoCall /\ call' # NoCall
           /\ ~(call'.up = "ok" /\ call'.text # <<>>)
           /\ call'.severity \in DOMAIN cacheFile.data)
          => call'.result = cacheFile.data[call'.severity]]_vars

\* the first call of a process falls back, with the breaker Closed, to an
\* entry found in the file
C19_Witness ==
    /\ call # NoCall /\ ~call.before /\ ~OPENAI_DISABLED
    /\ call.invoked /\ call.up = "network"
    /\ cacheFile.state = "valid"
    /\ call.severity \in DOMAIN cacheFile.data
    /\ call.result = cacheFile.data[call.severity]

\* C20: when two sessions store texts for two different severities at the
\* same time, the cache file holds both entries once both calls have
\* returned.
C20_NoLostUpdate ==
    (threads # NoThreads /\ \A t \in Sessions : threads.s[t].pc = "done") =>
        /\ cacheFile.state = "valid"
        /\ \A t \in Sessions :
              /\ threads.s[t].severity \in DOMAIN cacheFile.data
              /\ cacheFile.data[threads.s[t].severity] = threads.s[t].text

\* C21: when a route is delivered, its tag is the requested strategy exactly
\* when the graph search with that strategy's weight gave a path of at least
\* 2 points from a node nearest to the origin to a node nearest to the
\* target, and the route is that path; otherwise the tag is a fallback tag.
C21_TagTellsRealRouting ==
    cycle.find_route =>
        LET real == /\ cycle.searched /\ cycle.snapped
                    /\ Len(cycle.path) >= 2
                    /\ cycle.path[1] \in NearestNodes(cycle.blocked, cycle.origin)
                    /\ cycle.path[Len(cycle.path)]
                          \in NearestNodes(cycle.blocked, cycle.target)
                    /\ cycle.path \in NxShortestPaths(cycle.blocked, cycle.path[1],
                                                      cycle.path[Len(cycle.path)],
                                                      WeightAttr(cycle.mode))
        IN /\ cycle.route # NoRoute
           /\ (cycle.used = cycle.mode) <=> real
           /\ real => cycle.route = ToCoords(cycle.blocked, cycle.path)
           /\ ~real => (cycle.used \in FallbackTags /\ cycle.used \notin RouteModes)

\* a Fastest route over the detour, tagged Fastest
C21_Witness ==
    /\ cycle.find_route /\ cycle.mode = "Fastest" /\ cycle.used = "Fastest"
    /\ Len(cycle.path) = 3
    /\ cycle.route = ToCoords(cycle.blocked, cycle.path)

\* C22: the breaker goes from Closed to Open only in a call in which the
\* upstream generator was invoked and failed with a hard error (quota
\* exhaustion, authentication); a call in which it answered leaves the
\* breaker Closed, whatever the write of the text to the file does.
C22_OnlyUpstreamTrips ==
    (call # NoCall /\ ~call.before /\ OPENAI_DISABLED) =>
        /\ call.invoked
        /\ call.up \in {"quota", "auth"}

\* C23: after every generate_advisory call the cache file is a JSON object
\* that holds the severity-to-text mapping LOCAL_CACHE holds, also after a
\* call whose write failed (they hold the same mapping when a process starts).
C23_CacheMatchesFile ==
    /\ cacheFile.state # "corrupt"
    /\ LOCAL_CACHE = cacheFile.data

\* C24: a call for a severity leaves the entry of every other severity as it
\* was and adds no other key; a call that got no text from the upstream
\* generator leaves the cache and the file as they were; a call whose dump
\* was written leaves the other entries of an agreeing file as they were.
C24_OtherEntriesKept ==
    [][call' # NoCall =>
        LET fresh == call'.up = "ok" /\ call'.text # <<>>
            others == DOMAIN LOCAL_CACHE \ {call'.severity}
        IN /\ DOMAIN LOCAL_CACHE' \subseteq DOMAIN LOCAL_CACHE \cup {call'.severity}
           /\ \A k \in others :
                 k \in DOMAIN LOCAL_CACHE' /\ LOCAL_CACHE'[k] = LOCAL_CACHE[k]
           /\ ~fresh => (LOCAL_CACHE' = LOCAL_CACHE /\ cacheFile' = cacheFile)
           /\ (fresh /\ call'.wr.kind = "ok" /\ cacheFile.state = "valid"
               /\ cacheFile.data = LOCAL_CACHE) =>
                 \A k \in others : cacheFile'.data[k] = cacheFile.data[k]]_vars

\* a text was stored for one severity, its dump failed, and the other
\* severity still has the entry it had
C24_Witness ==
    /\ call.up = "ok" /\ call.text # <<>> /\ call.wr.kind # "ok"
    /\ \E k \in DOMAIN LOCAL_CACHE :
          k # call.severity /\ k \in DOMAIN cacheFile.data
          /\ LOCAL_CACHE[k] = cacheFile.data[k]
    /\ LOCAL_CACHE[call.severity] = call.text

\* C25: the two risk submodels are independent within a decision cycle: when
\* one scoring call returned and the other failed, the score and the drivers
\* handed to fusion for the one that returned are those it computed.
C25_SubmodelsIndependent ==
    LET l == session.last
    IN /\ l.d.status = "ok" =>
            /\ l.risk.disaster_score = l.d.score
            /\ l.risk.drivers = l.d.drivers
       /\ l.c.status = "ok" =>
            /\ l.risk.crowd_score = l.c.score
            /\ l.risk.crowd_drivers = l.c.drivers

\* C26: after every decision cycle the risk history holds at most 50 entries:
\* one entry of each of the most recent cycles, oldest first, and nothing
\* else (the entries dropped are the oldest ones).
C26_HistoryKeepsLatest ==
    LET h == session.risk_history
    IN /\ Len(h) <= 50
       /\ Len(h) = (IF session.now < 50 THEN session.now ELSE 50)
       /\ \A i \in DOMAIN h : h[i].timestamp = session.now - Len(h) + i

\* more than 50 cycles have run: the history is full and its oldest entry is
\* not the session's first one
C26_Witness ==
    /\ session.now > 50
    /\ Len(session.risk_history) = 50
    /\ session.risk_history[1].timestamp > 1
    /\ session.risk_history[50].timestamp = session.now

\* C27: in a cycle, an automatic alert is attempted only when the role is
\* Authority, automatic alerts are enabled and the severity is High or
\* Critical; once an attempt has succeeded, no later cycle of the session
\* attempts another; as long as none has succeeded (after a failed attempt
\* too), every such cycle attempts one.
C27_AlertOnce ==
    [][session'.now = session.now + 1 =>
        LET l == session'.last
            due == /\ l.role = "Authority"
                   /\ l.enabled
                   /\ l.severity \in {"High", "Critical"}
        IN /\ l.attempted => due
           /\ session.auto_sms_sent => (~l.attempted /\ session'.auto_sms_sent)
           /\ (due /\ ~session.auto_sms_sent) => l.attempted
           /\ session'.auto_sms_sent =
                 (session.auto_sms_sent \/ (l.attempted /\ l.sms = "ok"))]_vars

\* an attempt failed, a later one succeeded, and the cycle after that, with
\* the Authority role, alerts enabled and a High or Critical severity, sent
\* nothing
C27_Witness ==
    /\ session.sms_failed
    /\ session.auto_sms_sent
    /\ session.last.role = "Authority"
    /\ session.last.enabled
    /\ session.last.severity \in {"High", "Critical"}
    /\ ~session.last.attempted

=============================================================================
